---- MODULE Spec2Model ----
(***************************************************************************)
(* State-machine model of shares.Builder (src/shares/share_builder.go):    *)
(* one Builder, from construction through every call of its public API.    *)
(* A share is a sequence of bytes (0..255).  The layout constants that     *)
(* only fix sizes (NamespaceSize, ShareSize) are scaled down; the header   *)
(* field widths and the info-byte encoding keep their real values.         *)
(***************************************************************************)
EXTENDS Integers, Sequences, FiniteSets, TLC

\* ---- layout sizes, scaled down (go-square: NamespaceSize 29, ShareSize 512)
NamespaceSize == 2
ShareSize == 14

\* ---- header constants of package shares
ShareInfoBytes == 1
SequenceLenBytes == 4
CompactShareReservedBytes == 4
MaxShareVersion == 127

\* ---- generic sequence helpers
Zeros(n) == [i \in 1..n |-> 0]
Take(s, n) == SubSeq(s, 1, n)
Drop(s, n) == SubSeq(s, n + 1, Len(s))
Min(a, b) == IF a <= b THEN a ELSE b
Max(a, b) == IF a >= b THEN a ELSE b

\* b ^ m on n-bit unsigned values
RECURSIVE XorBits(_, _, _)
XorBits(a, b, n) ==
  IF n = 0 THEN 0
  ELSE (((a % 2) + (b % 2)) % 2) + 2 * XorBits(a \div 2, b \div 2, n - 1)

RECURSIVE Pow(_, _)
Pow(b, e) == IF e = 0 THEN 1 ELSE b * Pow(b, e - 1)

\* binary.BigEndian.PutUint32 into a buffer of 4 bytes
BigEndianPutUint32(v) == [i \in 1..4 |-> (v \div Pow(256, 4 - i)) % 256]

\* binary.BigEndian.Uint32 of the first 4 bytes.  TLC's integers are
\* 32-bit signed: a value of 2^31 or more is reported as 2^31 - 1, which keeps
\* every comparison the callers make (= 0, >= ShareSize) exact.
BigEndianUint32(b) ==
  IF b[1] >= 128 THEN 2147483647
  ELSE b[1] * 16777216 + b[2] * 65536 + b[3] * 256 + b[4]

\* uint32(n) of a slice length n: lengths here lie in 0..2*ShareSize, where
\* the conversion keeps the value
Uint32(n) == IF n >= 0 THEN n ELSE (n + 2147483647) + 1

\* ---- namespace package: a namespace is NamespaceSize bytes, version byte
\* first, identified here by the last byte of its ID
NsBytes(id) == [i \in 1..NamespaceSize |-> IF i = NamespaceSize THEN id ELSE 0]
TxNamespace == NsBytes(1)
PayForBlobNamespace == NsBytes(4)
BlobNamespace == NsBytes(9)
IsTx(ns) == ns = TxNamespace
IsPayForBlob(ns) == ns = PayForBlobNamespace

isCompactShareNs(ns) == IsTx(ns) \/ IsPayForBlob(ns)

\* ---- header field helpers of package shares
\* NewInfoByte(version, isSequenceStart): version in the high 7 bits
NewInfoByte(version, isSequenceStart) ==
  IF version > MaxShareVersion
  THEN [err |-> "InvalidVersion", val |-> 0]
  ELSE [err |-> "", val |-> ((version * 2) % 256) + (IF isSequenceStart THEN 1 ELSE 0)]

\* NewReservedBytes(byteIndex uint32)
NewReservedBytes(byteIndex) ==
  IF byteIndex >= ShareSize
  THEN [err |-> "MalformedReservedBytes", val |-> Zeros(CompactShareReservedBytes)]
  ELSE [err |-> "", val |-> BigEndianPutUint32(byteIndex)]

\* ParseReservedBytes(reservedBytes []byte)
ParseReservedBytes(reservedBytes) ==
  IF Len(reservedBytes) # CompactShareReservedBytes
  THEN [err |-> "MalformedReservedBytes", val |-> 0]
  ELSE IF ShareSize <= BigEndianUint32(reservedBytes)
       THEN [err |-> "MalformedReservedBytes", val |-> 0]
       ELSE [err |-> "", val |-> BigEndianUint32(reservedBytes)]

\* zeroPadIfNecessary(share, width) -> (padded, bytesOfPadding)
zeroPadIfNecessary(share, width) ==
  IF Len(share) >= width
  THEN [buf |-> share, n |-> 0]
  ELSE [buf |-> Take(share \o Zeros(width - Len(share)), width),
        n |-> width - Len(share)]

\* NewShare(data): a Share holds exactly ShareSize bytes
NewShare(data) ==
  IF Len(data) # ShareSize
  THEN [err |-> "MalformedShare", data |-> <<>>]
  ELSE [err |-> "", data |-> data]

\* ---- inputs
Versions == {0, MaxShareVersion, MaxShareVersion + 1}
Namespaces == {TxNamespace, PayForBlobNamespace, BlobNamespace}
LongData == [i \in 1..(ShareSize + 1) |-> 100 + i]
AddDataInputs == {<<>>, <<1, 2, 3>>, LongData}
SequenceLens == {0, 16909060}
ImportInputs ==
  { <<>>,
    TxNamespace,
    zeroPadIfNecessary(TxNamespace \o <<1>> \o BigEndianPutUint32(5), ShareSize).buf,
    zeroPadIfNecessary(BlobNamespace \o <<0, 7, 8>>, ShareSize).buf,
    zeroPadIfNecessary(TxNamespace \o <<0, 0, 0, 1, 0>>, ShareSize).buf,
    Zeros(ShareSize + 1) }

VARIABLES
  pc,              \* "none": no Builder yet; "ready"; "nil": NewBuilder failed; "panic"
  namespace,       \* Builder.namespace (its bytes)
  shareVersion,    \* Builder.shareVersion
  isFirstShare,    \* Builder.isFirstShare
  isCompactShare,  \* Builder.isCompactShare
  rawShareData,    \* Builder.rawShareData: the len(rawShareData) bytes of the slice
  capacity,        \* cap(Builder.rawShareData); bytes between len and cap are zero
  last,            \* the last call: its name, inputs (arg, n, flag), the buffer before
                   \* it (pre) and its results (out, ret, err); for
                   \* MaybeWriteReservedBytes n is firstRB before the call
  imported,        \* history: ImportRawShare has been called
  dataAdded,       \* history: AddData has been called with a non-empty input
  padded,          \* history: ZeroPadIfNecessary has been called
  firstRB,         \* history: buffer length at the first successful MaybeWriteReservedBytes, 0 if none
  share            \* the first Share that Build returned: built, its bytes (data), and
                   \* aliased: it is backed by the array of rawShareData; it is
                   \* recorded only when tracked (an observer, no call reads it)

vars == <<pc, namespace, shareVersion, isFirstShare, isCompactShare,
          rawShareData, capacity, last, imported, dataAdded, padded, firstRB,
          share>>

fields == <<namespace, shareVersion, isFirstShare, isCompactShare>>
history == <<imported, dataAdded, padded, firstRB>>

Call(op, arg, n, flag, pre, out, ret, err) ==
  [op |-> op, arg |-> arg, n |-> n, flag |-> flag, pre |-> pre,
   out |-> out, ret |-> ret, err |-> err]

Init ==
  /\ pc = "none"
  /\ namespace = <<>>
  /\ shareVersion = 0
  /\ isFirstShare = FALSE
  /\ isCompactShare = FALSE
  /\ rawShareData = <<>>
  /\ capacity = 0
  /\ last = Call("", <<>>, 0, FALSE, <<>>, <<>>, 0, "")
  /\ imported = FALSE
  /\ dataAdded = FALSE
  /\ padded = FALSE
  /\ firstRB = 0
  /\ share = [tracked |-> FALSE, built |-> FALSE, data |-> <<>>, aliased |-> FALSE]

\* ---- construction
NewEmptyBuilder ==
  /\ pc = "none"
  /\ pc' = "ready"
  /\ rawShareData' = <<>>
  /\ capacity' = ShareSize
  /\ last' = Call("NewEmptyBuilder", <<>>, 0, FALSE, <<>>, <<>>, 0, "")
  /\ UNCHANGED <<fields, history, share>>

prepareCompactShare(ns, version, first) ==
  LET infoByte == NewInfoByte(version, first) IN
  IF infoByte.err # "" THEN [err |-> infoByte.err, buf |-> <<>>]
  ELSE [err |-> "",
        buf |-> ns \o <<infoByte.val>>
                   \o (IF first THEN Zeros(SequenceLenBytes) ELSE <<>>)
                   \o Zeros(CompactShareReservedBytes)]

\* variant: the sequence-length placeholder is appended to every share
prepareSparseShare_AlwaysSequenceLen(ns, version, first) ==
  LET infoByte == NewInfoByte(version, first) IN
  IF infoByte.err # "" THEN [err |-> infoByte.err, buf |-> <<>>]
  ELSE [err |-> "",
        buf |-> ns \o <<infoByte.val>> \o Zeros(SequenceLenBytes)]

prepareSparseShare(ns, version, first) ==
  LET infoByte == NewInfoByte(version, first) IN
  IF infoByte.err # "" THEN [err |-> infoByte.err, buf |-> <<>>]
  ELSE [err |-> "",
        buf |-> ns \o <<infoByte.val>>
                   \o (IF first THEN Zeros(SequenceLenBytes) ELSE <<>>)]

init(ns, version, first, compact) ==
  IF compact THEN prepareCompactShare(ns, version, first)
  ELSE prepareSparseShare(ns, version, first)

NewBuilder(ns, version, first) ==
  /\ pc = "none"
  /\ LET r == init(ns, version, first, isCompactShareNs(ns)) IN
     IF r.err # ""
     THEN /\ pc' = "nil"
          /\ last' = Call("NewBuilder", ns, version, first, <<>>, <<>>, 0, r.err)
          /\ UNCHANGED <<fields, rawShareData, capacity>>
     ELSE /\ pc' = "ready"
          /\ namespace' = ns
          /\ shareVersion' = version
          /\ isFirstShare' = first
          /\ isCompactShare' = isCompactShareNs(ns)
          /\ rawShareData' = r.buf
          /\ capacity' = ShareSize
          /\ last' = Call("NewBuilder", ns, version, first, <<>>, <<>>, 0, "")
  /\ UNCHANGED <<history, share>>

\* ---- queries
AvailableBytes == ShareSize - Len(rawShareData)

\* variant: the sequence-length field is left out of the expected length
IsEmptyShare_IgnoresFirstShare ==
  Len(rawShareData) =
    NamespaceSize + ShareInfoBytes
      + (IF isCompactShare THEN CompactShareReservedBytes ELSE 0)

IsEmptyShare ==
  Len(rawShareData) =
    NamespaceSize + ShareInfoBytes
      + (IF isCompactShare THEN CompactShareReservedBytes ELSE 0)
      + (IF isFirstShare THEN SequenceLenBytes ELSE 0)

indexOfReservedBytes(first) ==
  IF first THEN NamespaceSize + ShareInfoBytes + SequenceLenBytes
  ELSE NamespaceSize + ShareInfoBytes

indexOfInfoBytes == NamespaceSize

\* ---- slices
\* capacity of the slice append returns: unchanged when the result fits,
\* otherwise a new array of at least the needed length
AppendCaps(cap, needed) ==
  IF needed <= cap THEN {cap} ELSE {needed, 2 * needed}

\* s[lo:hi] (0-based, hi exclusive) of a slice whose spare capacity is zero
Slice(buf, lo, hi) == [i \in 1..(hi - lo) |-> IF lo + i <= Len(buf) THEN buf[lo + i] ELSE 0]

\* the loop "for i < Len(bytes): buf[idx+i] = bytes[i]": it writes every index
\* below len(buf) and panics at the first one that is not
WriteAt(buf, idx, bytes) ==
  [i \in 1..Len(buf) |->
     IF i > idx /\ i <= idx + Len(bytes) THEN bytes[i - idx] ELSE buf[i]]
WritePanics(buf, idx, n) == n > 0 /\ idx + n > Len(buf)

\* ---- the Share handed out by Build
\* a Share backed by the Builder's array shows every in-place write to it
\* (an aliased Share means a full buffer, so an append writes nothing to it)
ShareAfter(buf) ==
  IF share.built /\ share.aliased
  THEN [share EXCEPT !.data = Take(buf, ShareSize)]
  ELSE share

\* ---- ImportRawShare
ImportRawShare(rawBytes) ==
  /\ pc = "ready"
  /\ rawShareData' = rawBytes
  /\ capacity' = Len(rawBytes)
  /\ last' = Call("ImportRawShare", rawBytes, 0, FALSE, rawShareData, <<>>, 0, "")
  /\ imported' = TRUE
  /\ share' = [share EXCEPT !.aliased = FALSE]
  /\ UNCHANGED <<pc, fields, dataAdded, padded, firstRB>>

\* ---- AddData
\* rawData[:pendingLeft] with a negative pendingLeft panics
AddDataPanics(buf, rawData) ==
  LET pendingLeft == ShareSize - Len(buf) IN
  Len(rawData) > pendingLeft /\ pendingLeft < 0

\* variant: the whole input is appended, whatever room is left
AddDataBuf_NoLimit(buf, rawData) == buf \o rawData

AddDataBuf(buf, rawData) ==
  LET pendingLeft == ShareSize - Len(buf) IN
  IF Len(rawData) <= pendingLeft THEN buf \o rawData
  ELSE buf \o Take(rawData, pendingLeft)

AddDataLeftOver(buf, rawData) ==
  LET pendingLeft == ShareSize - Len(buf) IN
  IF Len(rawData) <= pendingLeft THEN <<>>
  ELSE Drop(rawData, pendingLeft)

AddData(rawData) ==
  /\ pc = "ready"
  /\ IF AddDataPanics(rawShareData, rawData)
     THEN /\ pc' = "panic"
          /\ last' = Call("AddData", rawData, 0, FALSE, rawShareData, <<>>, 0, "panic")
          /\ UNCHANGED <<rawShareData, capacity>>
     ELSE /\ rawShareData' = AddDataBuf(rawShareData, rawData)
          /\ capacity' \in AppendCaps(capacity, Len(AddDataBuf(rawShareData, rawData)))
          /\ last' = Call("AddData", rawData, 0, FALSE, rawShareData,
                          AddDataLeftOver(rawShareData, rawData), 0, "")
          /\ pc' = pc
  /\ dataAdded' = (dataAdded \/ rawData # <<>>)
  /\ share' = ShareAfter(rawShareData')
  /\ UNCHANGED <<fields, imported, padded, firstRB>>

\* ---- ZeroPadIfNecessary
\* variant: the width passed on is one short
ZeroPadBuf_OneShort(buf) == zeroPadIfNecessary(buf, ShareSize - 1).buf

ZeroPadBuf(buf) == zeroPadIfNecessary(buf, ShareSize).buf
ZeroPadCount(buf) == zeroPadIfNecessary(buf, ShareSize).n

ZeroPadIfNecessary ==
  /\ pc = "ready"
  /\ rawShareData' = ZeroPadBuf(rawShareData)
  /\ capacity' \in AppendCaps(capacity, Len(ZeroPadBuf(rawShareData)))
  /\ last' = Call("ZeroPadIfNecessary", <<>>, 0, FALSE, rawShareData, <<>>,
                  ZeroPadCount(rawShareData), "")
  /\ padded' = TRUE
  /\ share' = ShareAfter(rawShareData')
  /\ UNCHANGED <<pc, fields, imported, dataAdded, firstRB>>

\* ---- Build
\* Build passes the slice rawShareData itself to NewShare; whether the Share
\* keeps that slice or a copy of it is NewShare's choice (keepsSlice)
\* variant: Build pads the buffer before it makes the Share
Build_Pads ==
  /\ pc = "ready"
  /\ rawShareData' = ZeroPadBuf(rawShareData)
  /\ capacity' \in AppendCaps(capacity, Len(ZeroPadBuf(rawShareData)))
  /\ last' = Call("Build", <<>>, 0, FALSE, rawShareData,
                  NewShare(ZeroPadBuf(rawShareData)).data, 0,
                  NewShare(ZeroPadBuf(rawShareData)).err)
  /\ IF NewShare(ZeroPadBuf(rawShareData)).err = "" /\ share.tracked /\ ~share.built
     THEN \E keepsSlice \in BOOLEAN :
            share' = [tracked |-> TRUE, built |-> TRUE,
                      data |-> NewShare(ZeroPadBuf(rawShareData)).data,
                      aliased |-> keepsSlice]
     ELSE share' = share
  /\ UNCHANGED <<pc, fields, history>>

Build ==
  /\ pc = "ready"
  /\ last' = Call("Build", <<>>, 0, FALSE, rawShareData,
                  NewShare(rawShareData).data, 0, NewShare(rawShareData).err)
  /\ IF NewShare(rawShareData).err = "" /\ share.tracked /\ ~share.built
     THEN \E keepsSlice \in BOOLEAN :
            share' = [tracked |-> TRUE, built |-> TRUE,
                      data |-> NewShare(rawShareData).data,
                      aliased |-> keepsSlice]
     ELSE share' = share
  /\ UNCHANGED <<pc, fields, rawShareData, capacity, history>>

\* ---- MaybeWriteReservedBytes
\* the slice expression rawShareData[i : i+CompactShareReservedBytes] panics
\* when its upper bound exceeds the capacity
isEmptyReservedBytes(buf, cap, first) ==
  LET idx == indexOfReservedBytes(first) IN
  IF idx + CompactShareReservedBytes > cap
  THEN [err |-> "panic", empty |-> FALSE]
  ELSE LET r == ParseReservedBytes(Slice(buf, idx, idx + CompactShareReservedBytes)) IN
       [err |-> r.err, empty |-> (r.err = "" /\ r.val = 0)]

\* variant: the "already populated" early return is missing
MaybeWriteReservedBytesRes_Overwrite(buf, cap, first, compact) ==
  IF ~compact THEN [err |-> "NotCompactShare", buf |-> buf]
  ELSE
    LET e == isEmptyReservedBytes(buf, cap, first) IN
    IF e.err # "" THEN [err |-> e.err, buf |-> buf]
    ELSE
      LET reservedBytes == NewReservedBytes(Uint32(Len(buf)))
          idx == indexOfReservedBytes(first) IN
      IF reservedBytes.err # "" THEN [err |-> "ReservedBytesOutOfRange", buf |-> buf]
      ELSE [err |-> IF WritePanics(buf, idx, CompactShareReservedBytes)
                    THEN "panic" ELSE "",
            buf |-> WriteAt(buf, idx, reservedBytes.val)]

\* variant: the bytes left in the share are recorded instead of the offset
MaybeWriteReservedBytesRes_Remaining(buf, cap, first, compact) ==
  IF ~compact THEN [err |-> "NotCompactShare", buf |-> buf]
  ELSE
    LET e == isEmptyReservedBytes(buf, cap, first) IN
    IF e.err # "" THEN [err |-> e.err, buf |-> buf]
    ELSE IF ~e.empty THEN [err |-> "", buf |-> buf]
    ELSE
      LET reservedBytes == NewReservedBytes(Uint32(ShareSize - Len(buf)))
          idx == indexOfReservedBytes(first) IN
      IF reservedBytes.err # "" THEN [err |-> "ReservedBytesOutOfRange", buf |-> buf]
      ELSE [err |-> IF WritePanics(buf, idx, CompactShareReservedBytes)
                    THEN "panic" ELSE "",
            buf |-> WriteAt(buf, idx, reservedBytes.val)]

\* variant: the share kind is tested after the reserved bytes were read
MaybeWriteReservedBytesRes_LateCheck(buf, cap, first, compact) ==
  LET e == isEmptyReservedBytes(buf, cap, first) IN
  IF e.err # "" THEN [err |-> e.err, buf |-> buf]
  ELSE IF ~compact THEN [err |-> "NotCompactShare", buf |-> buf]
  ELSE IF ~e.empty THEN [err |-> "", buf |-> buf]
  ELSE
    LET reservedBytes == NewReservedBytes(Uint32(Len(buf)))
        idx == indexOfReservedBytes(first) IN
    IF reservedBytes.err # "" THEN [err |-> "ReservedBytesOutOfRange", buf |-> buf]
    ELSE [err |-> IF WritePanics(buf, idx, CompactShareReservedBytes)
                  THEN "panic" ELSE "",
          buf |-> WriteAt(buf, idx, reservedBytes.val)]

MaybeWriteReservedBytesRes(buf, cap, first, compact) ==
  IF ~compact THEN [err |-> "NotCompactShare", buf |-> buf]
  ELSE
    LET e == isEmptyReservedBytes(buf, cap, first) IN
    IF e.err # "" THEN [err |-> e.err, buf |-> buf]
    ELSE IF ~e.empty THEN [err |-> "", buf |-> buf]
    ELSE
      LET byteIndexOfNextUnit == Len(buf)
          reservedBytes == NewReservedBytes(Uint32(byteIndexOfNextUnit))
          idx == indexOfReservedBytes(first) IN
      IF reservedBytes.err # "" THEN [err |-> "ReservedBytesOutOfRange", buf |-> buf]
      ELSE [err |-> IF WritePanics(buf, idx, CompactShareReservedBytes)
                    THEN "panic" ELSE "",
            buf |-> WriteAt(buf, idx, reservedBytes.val)]

MaybeWriteReservedBytes ==
  /\ pc = "ready"
  /\ LET r == MaybeWriteReservedBytesRes(rawShareData, capacity, isFirstShare, isCompactShare) IN
     /\ rawShareData' = r.buf
     /\ pc' = IF r.err = "panic" THEN "panic" ELSE pc
     /\ last' = Call("MaybeWriteReservedBytes", <<>>, firstRB, FALSE, rawShareData, <<>>, 0, r.err)
     /\ firstRB' = IF firstRB = 0 /\ r.err = "" THEN Len(rawShareData) ELSE firstRB
  /\ share' = ShareAfter(rawShareData')
  /\ UNCHANGED <<fields, capacity, imported, dataAdded, padded>>

\* ---- WriteSequenceLen
\* variant: the field is written one byte early, over the info byte
WriteSequenceLenRes_AtInfoByte(buf, first, sequenceLen) ==
  IF ~first THEN [err |-> "NotFirstShare", buf |-> buf]
  ELSE
    LET idx == NamespaceSize IN
    [err |-> IF WritePanics(buf, idx, SequenceLenBytes) THEN "panic" ELSE "",
     buf |-> WriteAt(buf, idx, BigEndianPutUint32(sequenceLen))]

\* variant: "first share" is read from the info byte instead of the field
WriteSequenceLenRes_InfoByteBit(buf, first, sequenceLen) ==
  IF ~(Len(buf) > NamespaceSize /\ buf[NamespaceSize + 1] % 2 = 1)
  THEN [err |-> "NotFirstShare", buf |-> buf]
  ELSE
    LET idx == NamespaceSize + ShareInfoBytes IN
    [err |-> IF WritePanics(buf, idx, SequenceLenBytes) THEN "panic" ELSE "",
     buf |-> WriteAt(buf, idx, BigEndianPutUint32(sequenceLen))]

WriteSequenceLenRes(buf, first, sequenceLen) ==
  IF ~first THEN [err |-> "NotFirstShare", buf |-> buf]
  ELSE
    LET sequenceLenBuf == BigEndianPutUint32(sequenceLen)
        idx == NamespaceSize + ShareInfoBytes IN
    [err |-> IF WritePanics(buf, idx, SequenceLenBytes) THEN "panic" ELSE "",
     buf |-> WriteAt(buf, idx, sequenceLenBuf)]

WriteSequenceLen(sequenceLen) ==
  /\ pc \in {"ready", "nil"}
  /\ IF pc = "nil"
     THEN /\ last' = Call("WriteSequenceLen", <<>>, sequenceLen, FALSE, rawShareData,
                          <<>>, 0, "NilBuilder")
          /\ UNCHANGED <<pc, rawShareData>>
     ELSE LET r == WriteSequenceLenRes(rawShareData, isFirstShare, sequenceLen) IN
          /\ rawShareData' = r.buf
          /\ pc' = IF r.err = "panic" THEN "panic" ELSE pc
          /\ last' = Call("WriteSequenceLen", <<>>, sequenceLen, FALSE, rawShareData,
                          <<>>, 0, r.err)
  /\ share' = ShareAfter(rawShareData')
  /\ UNCHANGED <<fields, capacity, history>>

\* ---- FlipSequenceStart
\* variant: the bit is set (| 0x01) instead of flipped
FlipSequenceStartBuf_SetBit(buf) ==
  [i \in 1..Len(buf) |->
     IF i = indexOfInfoBytes + 1 THEN (buf[i] \div 2) * 2 + 1 ELSE buf[i]]

FlipSequenceStartBuf(buf) ==
  LET infoByteIndex == indexOfInfoBytes IN
  [i \in 1..Len(buf) |->
     IF i = infoByteIndex + 1 THEN XorBits(buf[i], 1, 8) ELSE buf[i]]

FlipSequenceStartPanics(buf) == indexOfInfoBytes >= Len(buf)

FlipSequenceStart ==
  /\ pc = "ready"
  /\ IF FlipSequenceStartPanics(rawShareData)
     THEN /\ pc' = "panic"
          /\ rawShareData' = rawShareData
          /\ last' = Call("FlipSequenceStart", <<>>, 0, FALSE, rawShareData, <<>>, 0, "panic")
     ELSE /\ pc' = pc
          /\ rawShareData' = FlipSequenceStartBuf(rawShareData)
          /\ last' = Call("FlipSequenceStart", <<>>, 0, FALSE, rawShareData, <<>>, 0, "")
  /\ share' = ShareAfter(rawShareData')
  /\ UNCHANGED <<fields, capacity, history>>

\* ---- the program: one Builder, any sequence of calls
Next ==
  \/ NewEmptyBuilder
  \/ \E ns \in Namespaces, version \in Versions, first \in BOOLEAN :
       NewBuilder(ns, version, first)
  \/ \E rawBytes \in ImportInputs : ImportRawShare(rawBytes)
  \/ \E rawData \in AddDataInputs : AddData(rawData)
  \/ Build
  \/ ZeroPadIfNecessary
  \/ MaybeWriteReservedBytes
  \/ \E sequenceLen \in SequenceLens : WriteSequenceLen(sequenceLen)
  \/ FlipSequenceStart

Spec == Init /\ [][Next]_vars

\* ---- the same program with the returned Share recorded, on fewer inputs
InitShare ==
  /\ pc = "none"
  /\ namespace = <<>>
  /\ shareVersion = 0
  /\ isFirstShare = FALSE
  /\ isCompactShare = FALSE
  /\ rawShareData = <<>>
  /\ capacity = 0
  /\ last = Call("", <<>>, 0, FALSE, <<>>, <<>>, 0, "")
  /\ imported = FALSE
  /\ dataAdded = FALSE
  /\ padded = FALSE
  /\ firstRB = 0
  /\ share = [tracked |-> TRUE, built |-> FALSE, data |-> <<>>, aliased |-> FALSE]

ShareVersions == {0, MaxShareVersion + 1}
ShareNamespaces == {TxNamespace, BlobNamespace}
ShareAddDataInputs == {<<1, 2, 3>>, LongData}
ShareSequenceLens == {16909060}
ShareImportInputs ==
  { TxNamespace,
    zeroPadIfNecessary(BlobNamespace \o <<0, 7, 8>>, ShareSize).buf }

NextShare ==
  \/ NewEmptyBuilder
  \/ \E ns \in ShareNamespaces, version \in ShareVersions, first \in BOOLEAN :
       NewBuilder(ns, version, first)
  \/ \E rawBytes \in ShareImportInputs : ImportRawShare(rawBytes)
  \/ \E rawData \in ShareAddDataInputs : AddData(rawData)
  \/ Build
  \/ ZeroPadIfNecessary
  \/ MaybeWriteReservedBytes
  \/ \E sequenceLen \in ShareSequenceLens : WriteSequenceLen(sequenceLen)
  \/ FlipSequenceStart

SpecShare == InitShare /\ [][NextShare]_vars

TypeOK ==
  /\ pc \in {"none", "ready", "nil", "panic"}
  /\ \A i \in 1..Len(rawShareData) : rawShareData[i] \in 0..255
  /\ Len(rawShareData) <= capacity \/ pc = "none"

\* ---- vocabulary of the properties
\* the Builder came from NewBuilder (NewEmptyBuilder leaves the namespace empty)
ByNewBuilder == pc \in {"ready", "panic"} /\ namespace # <<>>

\* header length the layout table gives: namespace, info byte, sequence
\* length if first, reserved bytes if compact
HeaderLen(first, compact) ==
  NamespaceSize + 1 + (IF first THEN SequenceLenBytes ELSE 0)
    + (IF compact THEN CompactShareReservedBytes ELSE 0)

\* the reserved-bytes field of a buffer
ReservedField(buf, first) ==
  Slice(buf, indexOfReservedBytes(first),
        indexOfReservedBytes(first) + CompactShareReservedBytes)

\* C1 (as stated): AddData(d) in any Builder state appends the first
\* min(len(d), AvailableBytes()) bytes of d to the buffer and returns the rest
\* of d, of length max(0, len(d) - AvailableBytes()); appended ++ leftover = d.
C1_AddDataAppendsPrefix ==
  last.op = "AddData" =>
    LET avail == ShareSize - Len(last.pre)
        n == Min(Len(last.arg), avail) IN
    /\ last.err = ""
    /\ rawShareData = last.pre \o Take(last.arg, n)
    /\ last.out = Drop(last.arg, n)
    /\ Len(last.out) = Max(0, Len(last.arg) - avail)
    /\ Drop(rawShareData, Len(last.pre)) \o last.out = last.arg

\* C2 (as stated): in every state reachable through the public API,
\* AvailableBytes() + len(buffer) = ShareSize and AvailableBytes() >= 0.
C2_AvailableBytesNeverNegative ==
  pc \in {"ready", "panic"} =>
    /\ AvailableBytes + Len(rawShareData) = ShareSize
    /\ AvailableBytes >= 0

\* C3: on a compact Builder from NewBuilder (no ImportRawShare), the
\* reserved-bytes field is write-once: the first successful
\* MaybeWriteReservedBytes stores the big-endian buffer length of that moment,
\* every later call succeeds and leaves the buffer unchanged, and a second
\* call right after a successful one changes nothing.
C3_ReservedBytesWriteOnce ==
  (pc = "ready" /\ isCompactShare /\ ~imported) =>
    /\ firstRB # 0 =>
         ReservedField(rawShareData, isFirstShare) = BigEndianPutUint32(firstRB)
    /\ last.op = "MaybeWriteReservedBytes" =>
         /\ last.n # 0 => (last.err = "" /\ rawShareData = last.pre)
         /\ (last.n = 0 /\ last.err = "") =>
              /\ firstRB = Len(last.pre)
              /\ rawShareData = WriteAt(last.pre, indexOfReservedBytes(isFirstShare),
                                        BigEndianPutUint32(Len(last.pre)))
    /\ LET once == MaybeWriteReservedBytesRes(rawShareData, capacity,
                                              isFirstShare, isCompactShare)
           twice == MaybeWriteReservedBytesRes(once.buf, capacity,
                                               isFirstShare, isCompactShare) IN
       once.err = "" => (twice.err = "" /\ twice.buf = once.buf)

\* a later call, after more data was added, on a Builder that never imported
C3_Witness ==
  /\ pc = "ready" /\ isCompactShare /\ ~imported
  /\ last.op = "MaybeWriteReservedBytes" /\ last.err = ""
  /\ last.n # 0 /\ Len(rawShareData) > last.n

\* C4: WriteSequenceLen on a Builder constructed with isFirstShare = false
\* returns NotFirstShare for every sequenceLen, after any calls, and leaves
\* the buffer and the Builder's fields unchanged.
C4_WriteSequenceLenNotFirstShare ==
  [][(pc = "ready" /\ ~isFirstShare /\ last'.op = "WriteSequenceLen") =>
       (last'.err = "NotFirstShare"
        /\ UNCHANGED <<pc, fields, rawShareData, capacity>>)]_vars

\* the call was refused on a Builder that already holds data and whose info
\* byte has the sequence-start bit set
C4_Witness ==
  /\ pc = "ready" /\ ~isFirstShare
  /\ last.op = "WriteSequenceLen" /\ last.err = "NotFirstShare" /\ last.n # 0
  /\ Len(rawShareData) > NamespaceSize + ShareInfoBytes + SequenceLenBytes
  /\ rawShareData[NamespaceSize + 1] % 2 = 1

\* C5: on a buffer that holds an info byte, FlipSequenceStart changes only
\* bit 0 of the byte at offset NamespaceSize (version bits, every other byte
\* and the length stay), and a second application restores the buffer.
C5_FlipSequenceStartInvolution ==
  (last.op = "FlipSequenceStart" /\ Len(last.pre) > NamespaceSize) =>
    /\ last.err = "" /\ pc = "ready"
    /\ Len(rawShareData) = Len(last.pre)
    /\ \A i \in 1..Len(last.pre) :
         i # NamespaceSize + 1 => rawShareData[i] = last.pre[i]
    /\ rawShareData[NamespaceSize + 1] \div 2 = last.pre[NamespaceSize + 1] \div 2
    /\ rawShareData[NamespaceSize + 1] % 2 = 1 - (last.pre[NamespaceSize + 1] % 2)
    /\ FlipSequenceStartBuf(rawShareData) = last.pre

\* a flip that cleared the bit of an info byte with every version bit set
C5_Witness ==
  /\ last.op = "FlipSequenceStart" /\ last.err = ""
  /\ last.pre[NamespaceSize + 1] = 255
  /\ rawShareData[NamespaceSize + 1] = 254

\* C6: Build succeeds exactly when the buffer holds ShareSize bytes, the
\* Share then holds those bytes; for every other length it returns a
\* malformed-share error and no Share; Build never changes the buffer.
C6_BuildNeedsFullBuffer ==
  last.op = "Build" =>
    /\ rawShareData = last.pre
    /\ Len(last.pre) = ShareSize =>
         (last.err = "" /\ last.out = last.pre /\ Len(last.out) = ShareSize)
    /\ Len(last.pre) # ShareSize =>
         (last.err = "MalformedShare" /\ last.out = <<>>)

\* Build refused a Builder that holds data but was not padded
C6_Witness ==
  /\ last.op = "Build" /\ last.err = "MalformedShare"
  /\ dataAdded /\ ~padded /\ ~imported
  /\ Len(rawShareData) < ShareSize

\* C7: with buffer length L <= ShareSize, ZeroPadIfNecessary returns
\* ShareSize - L, keeps the first L bytes, zeroes bytes L..ShareSize-1 and
\* leaves exactly ShareSize bytes; right after the single fitting AddData of a
\* NewBuilder Builder it returns ShareSize - headerLen - dataLen.
C7_ZeroPadFillsToShareSize ==
  [][(pc = "ready" /\ last'.op = "ZeroPadIfNecessary"
        /\ Len(rawShareData) <= ShareSize) =>
       /\ last'.ret = ShareSize - Len(rawShareData)
       /\ Len(rawShareData') = ShareSize
       /\ Take(rawShareData', Len(rawShareData)) = rawShareData
       /\ \A i \in (Len(rawShareData) + 1)..ShareSize : rawShareData'[i] = 0
       /\ (/\ ByNewBuilder /\ last.op = "AddData" /\ last.out = <<>>
           /\ last.pre = init(namespace, shareVersion, isFirstShare,
                              isCompactShare).buf) =>
            last'.ret = ShareSize - HeaderLen(isFirstShare, isCompactShare)
                          - Len(last.arg)]_vars

\* padding after one 3-byte unit on a sparse Builder that never imported
C7_Witness ==
  /\ pc = "ready" /\ ByNewBuilder /\ ~imported /\ ~isCompactShare
  /\ last.op = "ZeroPadIfNecessary"
  /\ Len(last.pre) = HeaderLen(isFirstShare, isCompactShare) + 3
  /\ last.ret = ShareSize - HeaderLen(isFirstShare, isCompactShare) - 3
  /\ last.ret > 0 /\ Len(rawShareData) = ShareSize

\* C8: NewBuilder(ns, version, isFirstShare) with version <= MaxShareVersion
\* yields the buffer ns ++ info byte (version in the high bits, bit 0 =
\* isFirstShare) ++ SequenceLenBytes zeros iff first ++
\* CompactShareReservedBytes zeros iff ns is the transaction or pay-for-blob
\* namespace; with a larger version it yields InvalidVersion and no Builder.
C8_NewBuilderLayout ==
  last.op = "NewBuilder" =>
    IF last.n <= MaxShareVersion
    THEN /\ pc = "ready" /\ last.err = ""
         /\ rawShareData =
              last.arg
                \o <<2 * last.n + (IF last.flag THEN 1 ELSE 0)>>
                \o (IF last.flag THEN Zeros(SequenceLenBytes) ELSE <<>>)
                \o (IF last.arg \in {TxNamespace, PayForBlobNamespace}
                    THEN Zeros(CompactShareReservedBytes) ELSE <<>>)
         /\ rawShareData[NamespaceSize + 1] \div 2 = last.n
         /\ rawShareData[NamespaceSize + 1] % 2 = (IF last.flag THEN 1 ELSE 0)
    ELSE pc = "nil" /\ last.err = "InvalidVersion" /\ rawShareData = <<>>

\* a first compact share of the highest version
C8_Witness ==
  /\ last.op = "NewBuilder" /\ pc = "ready"
  /\ last.flag /\ last.n = MaxShareVersion /\ last.arg = PayForBlobNamespace
  /\ Len(rawShareData) = NamespaceSize + 1 + SequenceLenBytes + CompactShareReservedBytes

C10_SparseRejectsReservedBytes ==
  [][(pc = "ready" /\ ~isCompactShare /\ last'.op = "MaybeWriteReservedBytes") =>
       (last'.err = "NotCompactShare"
        /\ UNCHANGED <<pc, fields, rawShareData, capacity, history>>)]_vars

\* the call was refused on a buffer too short to hold a reserved-bytes field
C10_Witness ==
  /\ pc = "ready" /\ ~isCompactShare
  /\ last.op = "MaybeWriteReservedBytes" /\ last.err = "NotCompactShare"
  /\ capacity < NamespaceSize + ShareInfoBytes + CompactShareReservedBytes

\* C11 (as stated): after a successful Build no later call on the Builder
\* changes the bytes of the returned Share, and Built is terminal: the
\* Builder's buffer is not written, extended or replaced any more.
C11_BuiltShareImmutableAndTerminal ==
  [][share.built =>
       (share'.data = share.data /\ rawShareData' = rawShareData)]_vars

\* C12 (as stated): on a first-share Builder from NewBuilder,
\* WriteSequenceLen(n) succeeds in every state, stores the big-endian n in the
\* SequenceLenBytes bytes at offset NamespaceSize + 1, and leaves the length
\* and every other byte unchanged.
C12_WriteSequenceLenOverwrites ==
  [][(pc = "ready" /\ ByNewBuilder /\ isFirstShare
        /\ last'.op = "WriteSequenceLen") =>
       /\ last'.err = "" /\ pc' = "ready"
       /\ Len(rawShareData') = Len(rawShareData)
       /\ Len(rawShareData') >= NamespaceSize + ShareInfoBytes + SequenceLenBytes
       /\ Slice(rawShareData', NamespaceSize + ShareInfoBytes,
                NamespaceSize + ShareInfoBytes + SequenceLenBytes)
            = BigEndianPutUint32(last'.n)
       /\ \A i \in 1..Len(rawShareData) :
            (i <= NamespaceSize + ShareInfoBytes
               \/ i > NamespaceSize + ShareInfoBytes + SequenceLenBytes)
              => rawShareData'[i] = rawShareData[i]]_vars

\* C13 (as stated): after ImportRawShare(bytes) the buffer is bytes verbatim
\* and the Builder's first-share flag and share kind agree with the info byte
\* and namespace of the imported share, also after a later FlipSequenceStart.
C13_ImportAdoptsLayout ==
  (pc = "ready" /\ imported /\ last.err = ""
     /\ last.op \in {"ImportRawShare", "FlipSequenceStart"}) =>
    /\ last.op = "ImportRawShare" => rawShareData = last.arg
    /\ Len(rawShareData) > NamespaceSize =>
         /\ isFirstShare <=> (rawShareData[NamespaceSize + 1] % 2 = 1)
         /\ isCompactShare <=> isCompactShareNs(Take(rawShareData, NamespaceSize))

\* C14: on a NewBuilder Builder, AddData, ZeroPadIfNecessary,
\* MaybeWriteReservedBytes and WriteSequenceLen never change the namespace
\* bytes or the info byte, AddData and ZeroPadIfNecessary keep every byte
\* already in the buffer, so the constructed header survives these calls.
C14_HeaderSurvives ==
  [][(pc = "ready" /\ ByNewBuilder
        /\ last'.op \in {"AddData", "ZeroPadIfNecessary",
                         "MaybeWriteReservedBytes", "WriteSequenceLen"}) =>
       /\ Len(rawShareData') >= Len(rawShareData)
       /\ \A i \in 1..Min(Len(rawShareData), NamespaceSize + ShareInfoBytes) :
            rawShareData'[i] = rawShareData[i]
       /\ last'.op \in {"AddData", "ZeroPadIfNecessary"} =>
            Take(rawShareData', Len(rawShareData)) = rawShareData
       /\ (/\ Len(rawShareData) > NamespaceSize
           /\ Take(rawShareData, NamespaceSize) = namespace
           /\ rawShareData[NamespaceSize + 1]
                = NewInfoByte(shareVersion, isFirstShare).val) =>
            /\ Take(rawShareData', NamespaceSize) = namespace
            /\ rawShareData'[NamespaceSize + 1]
                 = NewInfoByte(shareVersion, isFirstShare).val]_vars

\* the constructed header is intact after all four calls have acted
C14_Witness ==
  /\ pc = "ready" /\ ByNewBuilder /\ ~imported
  /\ dataAdded /\ padded /\ firstRB # 0
  /\ last.op = "WriteSequenceLen" /\ last.err = "" /\ last.n # 0
  /\ Take(rawShareData, NamespaceSize) = namespace
  /\ rawShareData[NamespaceSize + 1] = NewInfoByte(shareVersion, isFirstShare).val

\* C15: on a NewBuilder Builder driven without ImportRawShare the buffer
\* length never decreases and stays within [headerLen, ShareSize], and no
\* call panics: every header index and rawData[:pendingLeft] is in bounds.
C15_LengthWithinBoundsNoPanic ==
  [][(ByNewBuilder' /\ ~imported') =>
       /\ pc' = "ready" /\ last'.err # "panic"
       /\ HeaderLen(isFirstShare', isCompactShare') <= Len(rawShareData')
       /\ Len(rawShareData') <= ShareSize
       /\ pc = "ready" => Len(rawShareData') >= Len(rawShareData)
       /\ ~AddDataPanics(rawShareData', LongData)
       /\ ~FlipSequenceStartPanics(rawShareData')
       /\ ~WritePanics(rawShareData', NamespaceSize + ShareInfoBytes,
                       IF isFirstShare' THEN SequenceLenBytes ELSE 0)
       /\ ~WritePanics(rawShareData', indexOfReservedBytes(isFirstShare'),
                       IF isCompactShare' THEN CompactShareReservedBytes ELSE 0)]_vars

\* an AddData that filled the share and spilled the rest of its input
C15_Witness ==
  /\ pc = "ready" /\ ByNewBuilder /\ ~imported
  /\ last.op = "AddData" /\ last.out # <<>>
  /\ Len(last.pre) < ShareSize /\ Len(rawShareData) = ShareSize

\* C16: on a compact NewBuilder Builder driven without ImportRawShare the
\* reserved-bytes field holds 0 or an offset v with
\* headerLen <= v <= len(buffer) and v < ShareSize.
C16_ReservedOffsetInRange ==
  (pc = "ready" /\ isCompactShare /\ ~imported) =>
    LET v == BigEndianUint32(ReservedField(rawShareData, isFirstShare)) IN
    \/ v = 0
    \/ /\ HeaderLen(isFirstShare, isCompactShare) <= v
       /\ v <= Len(rawShareData)
       /\ v < ShareSize

\* an offset recorded after a first unit, with more data added behind it
C16_Witness ==
  /\ pc = "ready" /\ isCompactShare /\ ~imported
  /\ BigEndianUint32(ReservedField(rawShareData, isFirstShare))
       > HeaderLen(isFirstShare, isCompactShare)
  /\ BigEndianUint32(ReservedField(rawShareData, isFirstShare)) < Len(rawShareData)

====
